---- MODULE Spec2Model ----
(***************************************************************************)
(* Fallback PoSt vanilla prover and verifier                               *)
(* (storage-proofs-post/src/fallback/vanilla.rs).                          *)
(*                                                                         *)
(* The prover is modelled statement by statement: the per-challenge        *)
(* closures of the rayon parallel map finish in any order, every other     *)
(* step follows the program order.  The verifier is sequential code and    *)
(* is one action.  The hash function, the Merkle proofs and the Merkle     *)
(* trees are collaborators that live outside vanilla.rs; they are          *)
(* modelled from their contracts: hash2 is an injective pairing (no        *)
(* collisions), the tree is a binary tree over SectorSize / NODE_SIZE      *)
(* leaves.  The challenge functions, satisfies_requirements and direct     *)
(* calls of the verifier on given proofs are applied to inputs drawn from  *)
(* small sets; usize is UsizeBits wide.  The prover is called with the     *)
(* trees of its sectors, so that sector_size / NODE_SIZE is their leaf     *)
(* count; the verifier and the challenge functions take no tree and are    *)
(* called with a sector_size below NODE_SIZE as well.                      *)
(***************************************************************************)
EXTENDS Integers, Sequences, FiniteSets, TLC

\* ---------------------------------------------------------------- bounds
MaxSectors == 2
MaxChallenges == 2
MaxSectorCount == 3
MaxPartitions == 2
UsizeBits == 4

\* ------------------------------------------------------------- constants
NODE_SIZE == 32
SectorSizes == {4 * NODE_SIZE}
Randomness == {1}
DigestSpace == 2 ^ 16
\* usize: the values 0 .. UsizeRange - 1
UsizeRange == 2 ^ UsizeBits

\* ------------------------------------------------ hash / Merkle contracts
\* HashFunction::hash2: deterministic and collision free (Cantor pairing).
hash2(a, b) == ((a + b) * (a + b + 1)) \div 2 + b

RECURSIVE Log2(_)
Log2(n) == IF n <= 1 THEN 0 ELSE 1 + Log2(n \div 2)

\* The node at `level` (0 = leaves) and position idx of the tree over data.
RECURSIVE NodeAt(_, _, _)
NodeAt(data, level, idx) ==
    IF level = 0 THEN data[idx]
    ELSE hash2(NodeAt(data, level - 1, 2 * idx), NodeAt(data, level - 1, 2 * idx + 1))

TreeLeafs(data) == Cardinality(DOMAIN data)
TreeRoot(data) == NodeAt(data, Log2(TreeLeafs(data)), 0)

\* The inclusion proof of leaf `leaf`: one (sibling, index) pair per level.
GenProof(data, leaf) ==
    [leaf |-> data[leaf],
     path |-> [l \in 1..Log2(TreeLeafs(data)) |->
                 LET pos == leaf \div (2 ^ (l - 1))
                 IN  [sibling |-> NodeAt(data, l - 1, IF pos % 2 = 0 THEN pos + 1 ELSE pos - 1),
                      index |-> pos % 2]],
     root |-> TreeRoot(data)]

NoProof == [leaf |-> 0, path |-> <<>>, root |-> 0]

\* MerkleProofTrait::root
ProofRoot(p) == p.root

\* MerkleProofTrait::verify: the root recomputed from the leaf and the path.
RECURSIVE FoldPath(_, _, _)
FoldPath(cur, path, l) ==
    IF l > Len(path) THEN cur
    ELSE FoldPath(IF path[l].index = 0 THEN hash2(cur, path[l].sibling)
                  ELSE hash2(path[l].sibling, cur), path, l + 1)

ProofVerify(p) == FoldPath(p.leaf, p.path, 1) = p.root

\* MerkleProofTrait::path_index: the leaf position the path encodes.
RECURSIVE PathIndex(_, _)
PathIndex(path, l) ==
    IF l > Len(path) THEN 0
    ELSE path[l].index * (2 ^ (l - 1)) + PathIndex(path, l + 1)

\* MerkleProofTrait::validate(node)
Validate(p, node) == ProofVerify(p) /\ node = PathIndex(p.path, 1)

\* MerkleProofTrait::expected_len(leaves)
ExpectedLen(leaves) == Log2(leaves)

\* MerkleTreeTrait::gen_cached_proof.  A "flaky" tree fails on leaf 2 and
\* answers leaf 1 with the proof of leaf 0; a tree of mode "ok" answers right.
GenCachedProof(tree, leaf) ==
    IF tree.mode = "flaky" /\ leaf = 2 THEN [ok |-> FALSE, proof |-> NoProof]
    ELSE IF tree.mode = "flaky" /\ leaf = 1 THEN [ok |-> TRUE, proof |-> GenProof(tree.data, 0)]
    ELSE [ok |-> TRUE, proof |-> GenProof(tree.data, leaf)]

\* ---------------------------------------------------- challenge derivation
\* The first 8 bytes of SHA256(randomness || le64(a) || le64(b)) as a number.
LeafDigest(randomness, a, b) == (randomness * 5 + a * 3 + b * 7 + 2) % DigestSpace

generate_leaf_challenge(pub_params, randomness, sector_id, leaf_challenge_index) ==
    LeafDigest(randomness, sector_id, leaf_challenge_index)
        % (pub_params.sector_size \div NODE_SIZE)

\* challenges[n + 1] is the challenge of index n.
generate_leaf_challenges(pub_params, randomness, sector_id, challenge_count) ==
    [n \in 1..challenge_count |->
        generate_leaf_challenge(pub_params, randomness, sector_id, n - 1)]

\* The remainder at line 241 has the divisor sector_size / NODE_SIZE.
LeafDivisorIsZero(pub_params) == pub_params.sector_size \div NODE_SIZE = 0

\* The first 8 bytes of SHA256(prover_id || randomness || le(n)) as a number.
SectorDigest(prover_id, randomness, n) ==
    (prover_id * 11 + randomness * 5 + n * 7 + 3) % DigestSpace

generate_sector_challenge(randomness, n, sector_set_len, prover_id) ==
    SectorDigest(prover_id, randomness, n) % sector_set_len

\* challenges[n + 1] is the challenge of index n.
generate_sector_challenges(randomness, challenge_count, sector_set_len, prover_id) ==
    [n \in 1..challenge_count |->
        generate_sector_challenge(randomness, n - 1, sector_set_len, prover_id)]

\* ------------------------------------------------------------------ state
VARIABLES
    pp,               \* PublicParams: sector_size, challenge_count, sector_count, shape
    pub_inputs,       \* PublicInputs: randomness, sectors (id, comm_r)
    priv_inputs,      \* PrivateInputs: sectors (tree, comm_c, comm_r_last)
    partition_count,  \* the partition_count argument
    conds,            \* how each input sector was built (ghost, read by the properties only)
    op,               \* the entry point called
    pc,               \* position in the entry point
    j,                \* index of the chunk being proven
    i,                \* index of the sector in the chunk (Window) or of the challenge (Winning)
    slots,            \* per challenge index: the result of its closure, or pending
    completed,        \* the challenge indices in the order their closures finished
    proofs,           \* the sector proofs of the chunk being proven
    partition_proofs, \* the partition proofs emitted so far
    faulty_sectors,   \* the BTreeSet of faulty sector ids
    result,           \* what the entry point returned
    first,            \* what the previous invocation on the same inputs returned
    vpub,             \* the public sectors handed to verify_all_partitions
    vproofs,          \* the partition proofs handed to verify_all_partitions
    tamper,           \* the one change made to an accepted (vpub, vproofs)
    verdict,          \* what verify_all_partitions returned
    args,             \* the arguments of a called function that are not in pp
    ret               \* what the called function returned

inputs == <<pp, pub_inputs, priv_inputs, partition_count, conds, op>>
loopv == <<j, i, slots, completed, proofs, partition_proofs, faulty_sectors>>
verifv == <<vpub, vproofs, tamper, verdict>>
callv == <<args, ret>>
vars == <<pp, pub_inputs, priv_inputs, partition_count, conds, op, pc, j, i, slots, completed,
          proofs, partition_proofs, faulty_sectors, result, first, vpub, vproofs, tamper, verdict,
          args, ret>>

\* ----------------------------------------------------------------- inputs
Conds == {"honest", "wrong_tree", "flaky", "bad_comm_r"}
IdModes == {"asc", "desc", "same"}
Shapes == {"Window", "Winning"}
Ops == {"prove_all_partitions", "vanilla_proof"}

\* The replica tree of sector `id` and the tree of some other replica.
TreeData(id, leaves) == [k \in 0..(leaves - 1) |-> (id + k) % 4]
WrongData(leaves) == [k \in 0..(leaves - 1) |-> 3]
CommC(id) == id + 1

SectorIdAt(mode, p, n) ==
    CASE mode = "asc" -> p - 1
      [] mode = "desc" -> n - p
      [] OTHER -> 0

\* As the tests build them: comm_r_last is the root of the sector's own tree
\* and comm_r = hash2(comm_c, comm_r_last); a "bad_comm_r" sector carries
\* another comm_r, a "wrong_tree" sector the tree of another replica.
PublicSector(id, cond, leaves) ==
    LET comm_r == hash2(CommC(id), TreeRoot(TreeData(id, leaves)))
    IN  [id |-> id, comm_r |-> IF cond = "bad_comm_r" THEN comm_r + 1 ELSE comm_r]

PrivateSector(id, cond, leaves) ==
    [tree |-> [data |-> IF cond = "wrong_tree" THEN WrongData(leaves) ELSE TreeData(id, leaves),
               mode |-> IF cond = "flaky" THEN "flaky" ELSE "ok"],
     comm_c |-> CommC(id),
     comm_r_last |-> TreeRoot(TreeData(id, leaves))]

\* ---------------------------------------------------------------- results
NoResult == [kind |-> "none", proofs |-> <<>>, faults |-> <<>>]
Ok(ps) == [kind |-> "Ok", proofs |-> ps, faults |-> <<>>]
Err == [kind |-> "Err", proofs |-> <<>>, faults |-> <<>>]
Panic == [kind |-> "panic", proofs |-> <<>>, faults |-> <<>>]
FaultySectors(l) == [kind |-> "FaultySectors", proofs |-> <<>>, faults |-> l]

Pending == [kind |-> "pending", proof |-> NoProof, sector |-> 0]
ProofSlot(p) == [kind |-> "proof", proof |-> p, sector |-> 0]
FaultSlot(id) == [kind |-> "fault", proof |-> NoProof, sector |-> id]
ErrSlot == [kind |-> "err", proof |-> NoProof, sector |-> 0]

NoTamper == [kind |-> "none", j |-> 0, i |-> 0, n |-> 0, l |-> 0]

\* Option<usize>: None is <<>>, Some(v) is <<v>>.
None == <<>>
Some(v) == <<v>>

NoArgs ==
    [randomness |-> 0, sector_id |-> 0, index |-> 0, count |-> 0, sector_set_len |-> 0,
     prover_id |-> 0, partitions |-> 0, minimum_challenge_count |-> 0,
     overflow_checks |-> FALSE]
NoRet == [kind |-> "none", vals |-> <<>>]

\* The state in which entry point o is called.
Called(o, params, pubs, privs, pcnt, cs, a) ==
    /\ pp = params
    /\ pub_inputs = pubs
    /\ priv_inputs = privs
    /\ partition_count = pcnt
    /\ conds = cs
    /\ op = o
    /\ pc = "start"
    /\ j = 0 /\ i = 0
    /\ slots = <<>> /\ completed = <<>>
    /\ proofs = <<>> /\ partition_proofs = <<>>
    /\ faulty_sectors = {}
    /\ result = NoResult /\ first = NoResult
    /\ vpub = <<>> /\ vproofs = <<>>
    /\ tamper = NoTamper
    /\ verdict = "none"
    /\ args = a
    /\ ret = NoRet

\* A call of prove_all_partitions or vanilla_proof.
InitProve ==
    \E n \in 0..MaxSectors, mode \in IdModes, missing \in 0..1,
       shape \in Shapes, cc \in 0..MaxChallenges, sc \in 0..MaxSectorCount,
       pcnt \in 0..MaxPartitions, ss \in SectorSizes, r \in Randomness, o \in Ops :
      \E cs \in [1..n -> Conds] :
        /\ missing <= n
        /\ (n <= 1 => mode = "asc")
        \* vanilla_proof takes no shape, sector_count or partition_count
        /\ (o = "vanilla_proof" => shape = "Window" /\ sc = 1 /\ pcnt = 1)
        /\ Called(o,
                  [sector_size |-> ss, challenge_count |-> cc, sector_count |-> sc,
                   shape |-> shape],
                  [randomness |-> r, k |-> None,
                   sectors |-> [p \in 1..n |->
                       PublicSector(SectorIdAt(mode, p, n), cs[p], ss \div NODE_SIZE)]],
                  [sectors |-> [p \in 1..(n - missing) |->
                       PrivateSector(SectorIdAt(mode, p, n), cs[p], ss \div NODE_SIZE)]],
                  pcnt, cs, NoArgs)

\* A call of prove: one partition, pub_inputs.k names the partition wanted.
ProveKs == {None, Some(0), Some(1)}

InitProveOne ==
    \E n \in 0..MaxSectors, missing \in 0..1, shape \in Shapes, cc \in 0..MaxChallenges,
       sc \in 0..MaxSectorCount, ss \in SectorSizes, r \in Randomness, k \in ProveKs :
      \E cs \in [1..n -> Conds] :
        /\ missing <= n
        /\ Called("prove",
                  [sector_size |-> ss, challenge_count |-> cc, sector_count |-> sc,
                   shape |-> shape],
                  [randomness |-> r, k |-> k,
                   sectors |-> [p \in 1..n |->
                       PublicSector(SectorIdAt("asc", p, n), cs[p], ss \div NODE_SIZE)]],
                  [sectors |-> [p \in 1..(n - missing) |->
                       PrivateSector(SectorIdAt("asc", p, n), cs[p], ss \div NODE_SIZE)]],
                  1, cs, NoArgs)

\* The arguments the challenge functions and satisfies_requirements are
\* called with.
CallOps ==
    {"generate_leaf_challenge", "generate_leaf_challenges", "generate_sector_challenge",
     "generate_sector_challenges", "satisfies_requirements"}
CallSectorSizes == {0, NODE_SIZE \div 2, NODE_SIZE, 2 * NODE_SIZE, 4 * NODE_SIZE}
CallRandomness == 0..1
CallSectorIds == 0..2
CallSetLens == 0..3
CallProverIds == 0..1
CallFactors == {0, 1, 3, 4, UsizeRange - 1}
CallMinimums == {0, 1, 9, UsizeRange - 1}

NoSectors == [sectors |-> <<>>]

\* A call of a challenge function.
InitChallenge ==
    \E o \in CallOps \ {"satisfies_requirements"}, ss \in CallSectorSizes,
       r \in CallRandomness, id \in CallSectorIds, n \in 0..MaxChallenges,
       len \in CallSetLens, pid \in CallProverIds :
        /\ (o \in {"generate_leaf_challenge", "generate_leaf_challenges"}
              => len = 0 /\ pid = 0)
        /\ (o \in {"generate_sector_challenge", "generate_sector_challenges"}
              => ss = 4 * NODE_SIZE /\ id = 0)
        /\ Called(o,
                  [sector_size |-> ss, challenge_count |-> 0, sector_count |-> 0,
                   shape |-> "Window"],
                  [randomness |-> r, k |-> None, sectors |-> <<>>], NoSectors, 0, <<>>,
                  [NoArgs EXCEPT !.randomness = r, !.sector_id = id,
                                 !.index = IF o \in {"generate_leaf_challenge",
                                                     "generate_sector_challenge"}
                                           THEN n ELSE 0,
                                 !.count = IF o \in {"generate_leaf_challenges",
                                                     "generate_sector_challenges"}
                                           THEN n ELSE 0,
                                 !.sector_set_len = len, !.prover_id = pid])

\* A call of satisfies_requirements, in a build with or without overflow checks.
InitRequirements ==
    \E partitions \in CallFactors, sc \in CallFactors, cc \in CallFactors,
       minimum \in CallMinimums, checks \in BOOLEAN :
        Called("satisfies_requirements",
               [sector_size |-> 4 * NODE_SIZE, challenge_count |-> cc, sector_count |-> sc,
                shape |-> "Window"],
               [randomness |-> 0, k |-> None, sectors |-> <<>>], NoSectors, 0, <<>>,
               [NoArgs EXCEPT !.partitions = partitions,
                              !.minimum_challenge_count = minimum,
                              !.overflow_checks = checks])

\* The partition proofs a direct call of verify_all_partitions is given:
\* `partitions` partition proofs of sector_count sector proofs, slot vi of
\* partition vj built for public sector vj * sector_count + vi (for the last
\* public sector beyond the list), with the inclusion proofs of the challenges
\* 0 .. challenge_count - 1 (by = "n") or of challenge vi (by = "i").  One
\* slot may carry a defect: another comm_c, fewer or more inclusion proofs;
\* or one partition proof lacks its last sector proof.  The proofs are those
\* of sectors of 4 nodes; the sector_size of the call may be below NODE_SIZE.
Builds == {"n", "i"}
SmallSectorSize == NODE_SIZE \div 2
BuiltSectorSize == 4 * NODE_SIZE
Defects == {"none", "built_comm_c", "built_fewer", "built_more", "built_short"}

BuiltSector(sectors, params, vj, vi) ==
    LET q == vj * params.sector_count + vi + 1
    IN  IF Len(sectors) = 0 THEN PublicSector(0, "honest", params.sector_size \div NODE_SIZE)
        ELSE sectors[IF q <= Len(sectors) THEN q ELSE Len(sectors)]

BuiltSectorProof(params, r, pub_sector, vi, by, count, comm_c) ==
    LET leaves == params.sector_size \div NODE_SIZE
    IN  [inclusion_proofs |->
            [n \in 1..count |->
                GenProof(TreeData(pub_sector.id, leaves),
                         generate_leaf_challenge(params, r, pub_sector.id,
                                                 IF by = "i" THEN vi ELSE n - 1))],
         comm_c |-> comm_c,
         comm_r_last |-> TreeRoot(TreeData(pub_sector.id, leaves))]

BuiltProofs(params, r, sectors, partitions, by, defect) ==
    [vj \in 1..partitions |->
        [sectors |->
            [vi \in 1..(IF defect.kind = "built_short" /\ defect.j = vj
                        THEN params.sector_count - 1 ELSE params.sector_count) |->
                LET here == defect.j = vj /\ defect.i = vi
                    pub_sector == BuiltSector(sectors, params, vj - 1, vi - 1)
                IN  BuiltSectorProof(
                        params, r, pub_sector, vi - 1, by,
                        IF here /\ defect.kind \in {"built_fewer", "built_more"}
                        THEN defect.n ELSE params.challenge_count,
                        IF here /\ defect.kind = "built_comm_c"
                        THEN CommC(pub_sector.id) + 1 ELSE CommC(pub_sector.id))]]]

\* A direct call of verify_all_partitions.
InitVerify ==
    \E shape \in Shapes, cc \in 0..MaxChallenges, sc \in 0..MaxSectorCount,
       n \in 0..(MaxSectors + 1), partitions \in 0..MaxPartitions, by \in Builds,
       ss \in SectorSizes \cup {SmallSectorSize}, r \in Randomness, kind \in Defects,
       dj \in 0..MaxPartitions, di \in 0..MaxSectorCount, dn \in 0..(MaxChallenges + 1) :
        /\ (ss = SmallSectorSize => kind = "none" /\ by = "n")
        /\ (kind = "none" => dj = 0 /\ di = 0 /\ dn = 0)
        /\ (kind # "none" => dj \in 1..partitions)
        /\ (kind = "built_short" => di = 0 /\ dn = 0 /\ sc >= 1)
        /\ (kind \in {"built_comm_c", "built_fewer", "built_more"} => di \in 1..sc)
        /\ (kind = "built_comm_c" => dn = 0)
        /\ (kind = "built_fewer" => dn < cc)
        /\ (kind = "built_more" => dn = cc + 1)
        /\ pp = [sector_size |-> ss, challenge_count |-> cc, sector_count |-> sc,
                 shape |-> shape]
        /\ pub_inputs = [randomness |-> r, k |-> None,
                         sectors |-> [q \in 1..n |->
                                         PublicSector(q - 1, "honest",
                                                      BuiltSectorSize \div NODE_SIZE)]]
        /\ priv_inputs = NoSectors
        /\ partition_count = partitions
        /\ conds = [q \in 1..n |-> "honest"]
        /\ op = "verify_all_partitions"
        /\ pc = "start"
        /\ j = 0 /\ i = 0
        /\ slots = <<>> /\ completed = <<>>
        /\ proofs = <<>> /\ partition_proofs = <<>>
        /\ faulty_sectors = {}
        /\ result = NoResult /\ first = NoResult
        /\ vpub = pub_inputs.sectors
        /\ tamper = [kind |-> kind, j |-> dj, i |-> di, n |-> dn, l |-> 0]
        /\ vproofs = BuiltProofs([pp EXCEPT !.sector_size = BuiltSectorSize], r, vpub,
                                 partitions, by, tamper)
        /\ verdict = "none"
        /\ args = NoArgs
        /\ ret = NoRet

Init == InitProve \/ InitProveOne \/ InitChallenge \/ InitRequirements \/ InitVerify

\* ------------------------------------------------- prove_all_partitions
Return(res) ==
    /\ pc' = IF op = "prove" THEN "proved" ELSE "done"
    /\ result' = res

\* slice::chunks(size): chunk c (from 0) of a slice of n elements holds the
\* positions ChunkLo(c, size) .. ChunkHi(c, size, n) (from 1).
NumChunks(n, size) == (n + size - 1) \div size
ChunkLo(c, size) == c * size + 1
ChunkHi(c, size, n) == IF (c + 1) * size < n THEN (c + 1) * size ELSE n
ChunkLen(c, size, n) == ChunkHi(c, size, n) - ChunkLo(c, size) + 1

AllPending(count) == [n \in 1..count |-> Pending]

\* The acceptance test without the comm_r binding.
AcceptProofNoCommR(proof, challenged_leaf, pub_sector, priv_sector) ==
    /\ Validate(proof, challenged_leaf)
    /\ ProofRoot(proof) = priv_sector.comm_r_last

\* The acceptance test of a generated proof (both shapes).
AcceptProof(proof, challenged_leaf, pub_sector, priv_sector) ==
    /\ Validate(proof, challenged_leaf)
    /\ ProofRoot(proof) = priv_sector.comm_r_last
    /\ pub_sector.comm_r = hash2(priv_sector.comm_c, priv_sector.comm_r_last)

\* The closure of the parallel map for one challenge index.
ProofOrFault(pub_sector, priv_sector, challenges, challenge_index) ==
    LET challenged_leaf == challenges[challenge_index + 1]
        proof == GenCachedProof(priv_sector.tree, challenged_leaf)
    IN  IF proof.ok /\ AcceptProof(proof.proof, challenged_leaf, pub_sector, priv_sector)
        THEN ProofSlot(proof.proof)
        ELSE FaultSlot(pub_sector.id)

\* No bound on the number of sectors of a Window call.
WindowFitsAlways(num_sectors, partitions, sector_count) == TRUE

\* Window: the sectors fit into partition_count partitions.
WindowFits(num_sectors, partitions, sector_count) ==
    num_sectors <= partitions * sector_count

\* Winning: some public sector and some challenge, in any numbers.
WinningFitsNonEmpty(num_sectors, sector_count) ==
    num_sectors > 0 /\ sector_count > 0

\* Winning: one public sector per challenge, and at least one.
WinningFits(num_sectors, sector_count) ==
    num_sectors = sector_count /\ sector_count > 0

\* The entry checks, up to the first sector of the first chunk.
Start ==
    /\ pc = "start"
    /\ op \in {"prove_all_partitions", "prove"}
    /\ LET num_sectors == Len(pub_inputs.sectors)
           enter(where, cnt) ==
               /\ pc' = where
               /\ slots' = AllPending(cnt)
               /\ result' = result
       IN  IF Len(priv_inputs.sectors) # num_sectors THEN Return(Err) /\ slots' = slots
           ELSE IF pp.shape = "Window"
           THEN IF ~WindowFits(num_sectors, partition_count, pp.sector_count)
                THEN Return(Err) /\ slots' = slots
                ELSE IF pp.sector_count = 0
                THEN Return(Panic) /\ slots' = slots    \* chunks(0)
                ELSE IF num_sectors = 0
                THEN enter("finalize", 0)
                ELSE enter("par", pp.challenge_count)
           ELSE IF ~WinningFits(num_sectors, pp.sector_count)
                THEN Return(Err) /\ slots' = slots
                ELSE IF pp.challenge_count # 1
                THEN Return(Err) /\ slots' = slots
                ELSE enter("winning", 0)
    /\ UNCHANGED <<inputs, callv, j, i, completed, proofs, partition_proofs, faulty_sectors,
                   first, verifv>>

\* Window: the closure of challenge index k of the current sector finishes.
WorkerFinish(k) ==
    /\ pc = "par"
    /\ k \in 0..(pp.challenge_count - 1)
    /\ slots[k + 1].kind = "pending"
    /\ LET p == ChunkLo(j, pp.sector_count) + i
           pub_sector == pub_inputs.sectors[p]
           priv_sector == priv_inputs.sectors[p]
           challenges == generate_leaf_challenges(pp, pub_inputs.randomness, pub_sector.id,
                                                  pp.challenge_count)
       IN  slots' = [slots EXCEPT ![k + 1] = ProofOrFault(pub_sector, priv_sector, challenges, k)]
    /\ completed' = Append(completed, k)
    /\ UNCHANGED <<inputs, callv, pc, j, i, proofs, partition_proofs, faulty_sectors, result,
                   first, verifv>>

\* The results in the order the closures finished.
CollectedByCompletion(results, finished) ==
    [n \in 1..Len(finished) |-> results[finished[n] + 1]]

\* collect(): the results of the parallel map, in the order the loop reads them.
Collected(results, finished) == results

RECURSIVE ProofsOf(_, _)
ProofsOf(rs, n) ==
    IF n > Len(rs) THEN <<>>
    ELSE (IF rs[n].kind = "proof" THEN <<rs[n].proof>> ELSE <<>>) \o ProofsOf(rs, n + 1)

FaultsOf(rs) == {rs[n].sector : n \in {m \in 1..Len(rs) : rs[m].kind = "fault"}}

\* Window: all closures of the sector are done; the loop over the collected
\* results fills inclusion_proofs and faulty_sectors, the sector proof is pushed.
CollectSector ==
    /\ pc = "par"
    /\ \A n \in 1..Len(slots) : slots[n].kind # "pending"
    /\ LET p == ChunkLo(j, pp.sector_count) + i
           priv_sector == priv_inputs.sectors[p]
           rs == Collected(slots, completed)
           last == i + 1 = ChunkLen(j, pp.sector_count, Len(pub_inputs.sectors))
       IN  /\ faulty_sectors' = faulty_sectors \cup FaultsOf(rs)
           /\ proofs' = Append(proofs, [inclusion_proofs |-> ProofsOf(rs, 1),
                                        comm_c |-> priv_sector.comm_c,
                                        comm_r_last |-> priv_sector.comm_r_last])
           /\ pc' = IF last THEN "pad" ELSE "par"
           /\ i' = IF last THEN i ELSE i + 1
           /\ slots' = IF last THEN <<>> ELSE AllPending(pp.challenge_count)
           /\ completed' = <<>>
    /\ UNCHANGED <<inputs, callv, j, partition_proofs, result, first, verifv>>

\* Padding with the chunk's first sector proof.
PadWithFirst(ps) == ps[1]

\* The sector proof that pads a short chunk.
PadWith(ps) == ps[Len(ps)]

\* Window: one turn of the padding loop.
PadStep ==
    /\ pc = "pad"
    /\ Len(proofs) < pp.sector_count
    /\ proofs' = Append(proofs, PadWith(proofs))
    /\ UNCHANGED <<inputs, callv, pc, j, i, slots, completed, partition_proofs, faulty_sectors,
                   result, first, verifv>>

\* The loop over the chunks stops after the first chunk.
MoreChunksNever(c, n, size) == FALSE

\* Whether the iterator over the chunks yields another chunk after chunk c.
MoreChunks(c, n, size) == c + 1 < NumChunks(n, size)

\* Window: the chunk's Proof is pushed; on to the next chunk, if any.
PushPartition ==
    /\ pc = "pad"
    /\ Len(proofs) >= pp.sector_count
    /\ partition_proofs' = Append(partition_proofs, [sectors |-> proofs])
    /\ proofs' = <<>>
    /\ LET more == MoreChunks(j, Len(pub_inputs.sectors), pp.sector_count)
       IN  /\ pc' = IF more THEN "par" ELSE "finalize"
           /\ j' = IF more THEN j + 1 ELSE j
           /\ slots' = IF more THEN AllPending(pp.challenge_count) ELSE <<>>
    /\ i' = 0
    /\ UNCHANGED <<inputs, callv, completed, faulty_sectors, result, first, verifv>>

\* Winning: the challenge of index i, proven against the first sector.
WinningChallenge ==
    /\ pc = "winning"
    /\ i < pp.sector_count
    /\ LET pub_sector == pub_inputs.sectors[1]
           priv_sector == priv_inputs.sectors[1]
           challenges == generate_leaf_challenges(pp, pub_inputs.randomness, pub_sector.id,
                                                  pp.sector_count)
           challenge == challenges[i + 1]
           proof == GenCachedProof(priv_sector.tree, challenge)
       IN  IF proof.ok /\ AcceptProof(proof.proof, challenge, pub_sector, priv_sector)
           THEN /\ proofs' = Append(proofs, [inclusion_proofs |-> <<proof.proof>>,
                                             comm_c |-> priv_sector.comm_c,
                                             comm_r_last |-> priv_sector.comm_r_last])
                /\ faulty_sectors' = faulty_sectors
           ELSE /\ proofs' = proofs
                /\ faulty_sectors' = faulty_sectors \cup {pub_sector.id}
    /\ i' = i + 1
    /\ UNCHANGED <<inputs, callv, pc, j, slots, completed, partition_proofs, result, first, verifv>>

\* Winning: vec![Proof { sectors: proofs }]
WinningEmit ==
    /\ pc = "winning"
    /\ i >= pp.sector_count
    /\ partition_proofs' = <<[sectors |-> proofs]>>
    /\ proofs' = <<>>
    /\ pc' = "finalize"
    /\ UNCHANGED <<inputs, callv, j, i, slots, completed, faulty_sectors, result, first, verifv>>

\* BTreeSet::into_iter().collect(): the ids in ascending order.
RECURSIVE SortedIds(_)
SortedIds(set) ==
    IF set = {} THEN <<>>
    ELSE LET m == CHOOSE x \in set : \A y \in set : x <= y
         IN  <<m>> \o SortedIds(set \ {m})

Finalize ==
    /\ pc = "finalize"
    /\ Return(IF faulty_sectors = {} THEN Ok(partition_proofs)
              ELSE FaultySectors(SortedIds(faulty_sectors)))
    /\ UNCHANGED <<inputs, callv, loopv, first, verifv>>

\* ------------------------------------------------------------ vanilla_proof
\* vanilla_proof(sector_id, priv_inputs, challenges), called with the id of the
\* first public sector and its leaf challenges.
VanillaSectorId ==
    IF Len(pub_inputs.sectors) > 0 THEN pub_inputs.sectors[1].id ELSE 0

VanillaChallenges ==
    generate_leaf_challenges(pp, pub_inputs.randomness, VanillaSectorId, pp.challenge_count)

VanillaStart ==
    /\ pc = "start"
    /\ op = "vanilla_proof"
    /\ IF Len(priv_inputs.sectors) # 1
       THEN Return(Err) /\ slots' = slots
       ELSE pc' = "vpar" /\ slots' = AllPending(Len(VanillaChallenges)) /\ result' = result
    /\ UNCHANGED <<inputs, callv, j, i, completed, proofs, partition_proofs, faulty_sectors,
                   first, verifv>>

\* The closure without the comparison of the root with comm_r_last.
VanillaClosureNoRoot(priv_sector, challenges, challenged_leaf_index) ==
    LET challenged_leaf == challenges[challenged_leaf_index + 1]
        proof == GenCachedProof(priv_sector.tree, challenged_leaf)
    IN  IF ~proof.ok THEN ErrSlot
        ELSE IF ~Validate(proof.proof, challenged_leaf) THEN ErrSlot
        ELSE ProofSlot(proof.proof)

\* The closure of the parallel map for one challenge index: the tree's error
\* is passed on by `?`, an invalid proof fails the ensure!.
VanillaClosure(priv_sector, challenges, challenged_leaf_index) ==
    LET challenged_leaf == challenges[challenged_leaf_index + 1]
        proof == GenCachedProof(priv_sector.tree, challenged_leaf)
    IN  IF ~proof.ok THEN ErrSlot
        ELSE IF ~(Validate(proof.proof, challenged_leaf)
                  /\ ProofRoot(proof.proof) = priv_sector.comm_r_last)
        THEN ErrSlot
        ELSE ProofSlot(proof.proof)

VanillaWorker ==
    /\ pc = "vpar"
    /\ \E k \in 0..(Len(slots) - 1) :
        /\ slots[k + 1].kind = "pending"
        /\ slots' = [slots EXCEPT ![k + 1] =
                        VanillaClosure(priv_inputs.sectors[1], VanillaChallenges, k)]
        /\ completed' = Append(completed, k)
    /\ UNCHANGED <<inputs, callv, pc, j, i, proofs, partition_proofs, faulty_sectors, result,
                   first, verifv>>

\* collect::<Result<Vec<_>>>()?: an error of any closure fails the call, the
\* closures not yet run are dropped; else the proofs come in index order.
VanillaCollect ==
    /\ pc = "vpar"
    /\ \A n \in 1..Len(slots) :
          slots[n].kind = "pending" => \E m \in 1..Len(slots) : slots[m].kind = "err"
    /\ LET priv_sector == priv_inputs.sectors[1]
           rs == Collected(slots, completed)
       IN  IF \E m \in 1..Len(rs) : rs[m].kind = "err"
           THEN Return(Err)
           ELSE Return(Ok(<<[sectors |-> <<[inclusion_proofs |-> ProofsOf(rs, 1),
                                            comm_c |-> priv_sector.comm_c,
                                            comm_r_last |-> priv_sector.comm_r_last]>>]>>))
    /\ slots' = <<>>
    /\ completed' = <<>>
    /\ UNCHANGED <<inputs, callv, j, i, proofs, partition_proofs, faulty_sectors, first, verifv>>

\* The caller invokes the entry point a second time on the same inputs.
Reinvoke ==
    /\ pc = "done"
    /\ first.kind = "none"
    /\ verdict = "none"
    /\ first' = result
    /\ result' = NoResult
    /\ pc' = "start"
    /\ j' = 0 /\ i' = 0
    /\ slots' = <<>> /\ completed' = <<>>
    /\ proofs' = <<>> /\ partition_proofs' = <<>>
    /\ faulty_sectors' = {}
    /\ UNCHANGED <<inputs, callv, verifv>>

\* ------------------------------------------------- verify_all_partitions
Min(a, b) == IF a < b THEN a ELSE b

\* A legacy index that is the sector's position, whatever j and n.
LegacyIndexIsPosition(pub_params, vj, vi, n) == vi

\* Winning: the legacy index of inclusion proof n of sector vi of partition vj.
LegacyIndex(pub_params, vj, vi, n) ==
    (vj * pub_params.sector_count + vi) * pub_params.challenge_count + n

\* The challenge index is the inclusion proof's position for both shapes.
ChallengeIndexByPosition(shape, vi, n) == n

\* The challenge index of inclusion proof n of sector vi.
ChallengeIndex(shape, vi, n) == IF shape = "Winning" THEN vi ELSE n

\* The loop over the inclusion proofs without the validation of the path.
RECURSIVE VerifyInclusionProofsNoValidate(_, _, _, _, _, _, _)
VerifyInclusionProofsNoValidate(pub_params, randomness, pub_sector, inclusion_proofs, vj, vi, n) ==
    IF n >= Len(inclusion_proofs) THEN "true"
    ELSE LET inclusion_proof == inclusion_proofs[n + 1]
             comm_r_last == ProofRoot(inclusion_proofs[1])
             legacy_index == LegacyIndex(pub_params, vj, vi, n)
         IN  IF pub_params.shape = "Winning" /\ legacy_index # vi THEN "err"
             ELSE IF LeafDivisorIsZero(pub_params) THEN "panic"    \* % 0 at line 241
             ELSE IF ProofRoot(inclusion_proof) # comm_r_last THEN "false"
             ELSE IF ExpectedLen(pub_params.sector_size \div NODE_SIZE)
                        # Len(inclusion_proof.path) THEN "false"
             ELSE VerifyInclusionProofsNoValidate(pub_params, randomness, pub_sector,
                                                  inclusion_proofs, vj, vi, n + 1)

\* The loop over the inclusion proofs of one sector proof, from position n.
RECURSIVE VerifyInclusionProofs(_, _, _, _, _, _, _)
VerifyInclusionProofs(pub_params, randomness, pub_sector, inclusion_proofs, vj, vi, n) ==
    IF n >= Len(inclusion_proofs) THEN "true"
    ELSE LET inclusion_proof == inclusion_proofs[n + 1]
             comm_r_last == ProofRoot(inclusion_proofs[1])
             legacy_index == LegacyIndex(pub_params, vj, vi, n)
             challenge_index == ChallengeIndex(pub_params.shape, vi, n)
             challenged_leaf == generate_leaf_challenge(pub_params, randomness, pub_sector.id,
                                                        challenge_index)
         IN  IF pub_params.shape = "Winning" /\ legacy_index # vi THEN "err"
             ELSE IF LeafDivisorIsZero(pub_params) THEN "panic"    \* % 0 at line 241
             ELSE IF ProofRoot(inclusion_proof) # comm_r_last THEN "false"
             ELSE IF ExpectedLen(pub_params.sector_size \div NODE_SIZE)
                        # Len(inclusion_proof.path) THEN "false"
             ELSE IF ~Validate(inclusion_proof, challenged_leaf) THEN "false"
             ELSE VerifyInclusionProofs(pub_params, randomness, pub_sector, inclusion_proofs,
                                        vj, vi, n + 1)

\* The body of the loop without the comm_r check.
VerifySectorNoBinding(pub_params, randomness, pub_sector, sector_proof, vj, vi) ==
    LET inclusion_proofs == sector_proof.inclusion_proofs
    IN  IF Len(inclusion_proofs) = 0 THEN "panic"
        ELSE IF pub_params.challenge_count # Len(inclusion_proofs) THEN "err"
        ELSE VerifyInclusionProofs(pub_params, randomness, pub_sector, inclusion_proofs,
                                   vj, vi, 0)

\* The body of the loop over (pub_sector, sector_proof).
VerifySector(pub_params, randomness, pub_sector, sector_proof, vj, vi) ==
    LET inclusion_proofs == sector_proof.inclusion_proofs
    IN  IF Len(inclusion_proofs) = 0 THEN "panic"    \* inclusion_proofs[0]
        ELSE IF hash2(sector_proof.comm_c, ProofRoot(inclusion_proofs[1])) # pub_sector.comm_r
        THEN "false"
        ELSE IF pub_params.challenge_count # Len(inclusion_proofs) THEN "err"
        ELSE VerifyInclusionProofs(pub_params, randomness, pub_sector, inclusion_proofs,
                                   vj, vi, 0)

\* The sector proofs the verifier reads in partition vj: zip of the public
\* chunk and proof.sectors.
PairedSectors(pub_params, sectors, part_proofs, vj) ==
    Min(ChunkLen(vj, pub_params.sector_count, Len(sectors)),
        Len(part_proofs[vj + 1].sectors))

RECURSIVE VerifySectors(_, _, _, _, _, _)
VerifySectors(pub_params, randomness, sectors, part_proofs, vj, vi) ==
    IF vi >= PairedSectors(pub_params, sectors, part_proofs, vj) THEN "true"
    ELSE LET r == VerifySector(pub_params, randomness,
                               sectors[ChunkLo(vj, pub_params.sector_count) + vi],
                               part_proofs[vj + 1].sectors[vi + 1], vj, vi)
         IN  IF r # "true" THEN r
             ELSE VerifySectors(pub_params, randomness, sectors, part_proofs, vj, vi + 1)

\* Every partition proof given, with or without a chunk of public sectors.
PairedPartitionsAll(pub_params, sectors, part_proofs) ==
    Len(part_proofs)

\* The partition proofs the verifier reads: zip of the proofs and the chunks.
PairedPartitions(pub_params, sectors, part_proofs) ==
    Min(Len(part_proofs), NumChunks(Len(sectors), pub_params.sector_count))

\* The loop over the partitions without the check of proof.sectors.len().
RECURSIVE VerifyPartitionsNoLen(_, _, _, _, _)
VerifyPartitionsNoLen(pub_params, randomness, sectors, part_proofs, vj) ==
    IF vj >= PairedPartitions(pub_params, sectors, part_proofs) THEN "true"
    ELSE LET r == VerifySectors(pub_params, randomness, sectors, part_proofs, vj, 0)
         IN  IF r # "true" THEN r
             ELSE VerifyPartitionsNoLen(pub_params, randomness, sectors, part_proofs, vj + 1)

RECURSIVE VerifyPartitions(_, _, _, _, _)
VerifyPartitions(pub_params, randomness, sectors, part_proofs, vj) ==
    IF vj >= PairedPartitions(pub_params, sectors, part_proofs) THEN "true"
    ELSE IF Len(part_proofs[vj + 1].sectors) # pub_params.sector_count THEN "err"
    ELSE LET r == VerifySectors(pub_params, randomness, sectors, part_proofs, vj, 0)
         IN  IF r # "true" THEN r
             ELSE VerifyPartitions(pub_params, randomness, sectors, part_proofs, vj + 1)

\* "true" / "false": Ok(true) / Ok(false); "err": Err; "panic": the call aborts.
verify_all_partitions(pub_params, randomness, sectors, part_proofs) ==
    IF Len(sectors) > pub_params.sector_count * Len(part_proofs) THEN "err"
    ELSE IF pub_params.sector_count = 0 THEN "panic"    \* chunks(0)
    ELSE VerifyPartitions(pub_params, randomness, sectors, part_proofs, 0)

\* The caller verifies what prove_all_partitions returned.
Verify ==
    /\ pc = "done"
    /\ op = "prove_all_partitions"
    /\ result.kind = "Ok"
    /\ first.kind = "none"
    /\ verdict = "none"
    /\ tamper.kind = "none"
    /\ vpub' = pub_inputs.sectors
    /\ vproofs' = result.proofs
    /\ verdict' = verify_all_partitions(pp, pub_inputs.randomness, vpub', vproofs')
    /\ UNCHANGED <<inputs, callv, pc, loopv, result, first, tamper>>

\* verify_all_partitions is called on the public inputs and proofs given.
CallVerify ==
    /\ pc = "start"
    /\ op = "verify_all_partitions"
    /\ verdict' = verify_all_partitions(pp, pub_inputs.randomness, vpub, vproofs)
    /\ pc' = "returned"
    /\ UNCHANGED <<inputs, callv, loopv, result, first, vpub, vproofs, tamper>>

\* ------------------------------------------------------------- tampering
\* One change is made to public inputs and proofs that were accepted, and the
\* changed ones are verified.
Accepted == verdict = "true" /\ tamper.kind = "none"

Reverify(kind, tj, ti, tn, tl) ==
    /\ tamper' = [kind |-> kind, j |-> tj, i |-> ti, n |-> tn, l |-> tl]
    /\ verdict' = verify_all_partitions(pp, pub_inputs.randomness, vpub', vproofs')
    /\ UNCHANGED <<inputs, callv, pc, loopv, result, first>>

TamperSibling ==
    /\ Accepted
    /\ \E tj \in 1..Len(vproofs) : \E ti \in 1..Len(vproofs[tj].sectors) :
       \E tn \in 1..Len(vproofs[tj].sectors[ti].inclusion_proofs) :
       \E tl \in 1..Len(vproofs[tj].sectors[ti].inclusion_proofs[tn].path) :
         /\ vproofs' = [vproofs EXCEPT
                          ![tj].sectors[ti].inclusion_proofs[tn].path[tl].sibling = @ + 1]
         /\ vpub' = vpub
         /\ Reverify("sibling", tj, ti, tn, tl)

TamperCommC ==
    /\ Accepted
    /\ \E tj \in 1..Len(vproofs) : \E ti \in 1..Len(vproofs[tj].sectors) :
         /\ vproofs' = [vproofs EXCEPT ![tj].sectors[ti].comm_c = @ + 1]
         /\ vpub' = vpub
         /\ Reverify("comm_c", tj, ti, 0, 0)

TamperCommRLast ==
    /\ Accepted
    /\ \E tj \in 1..Len(vproofs) : \E ti \in 1..Len(vproofs[tj].sectors) :
         /\ vproofs' = [vproofs EXCEPT ![tj].sectors[ti].comm_r_last = @ + 1]
         /\ vpub' = vpub
         /\ Reverify("comm_r_last", tj, ti, 0, 0)

\* The comm_r of the public sectors at positions a < b are exchanged.
SwapCommR ==
    /\ Accepted
    /\ \E a \in 1..Len(vpub) : \E b \in (a + 1)..Len(vpub) :
         /\ vpub[a].comm_r # vpub[b].comm_r
         /\ vpub' = [vpub EXCEPT ![a].comm_r = vpub[b].comm_r, ![b].comm_r = vpub[a].comm_r]
         /\ vproofs' = vproofs
         /\ Reverify("swap_comm_r", 0, a, b, 0)

\* The last sector proof of a partition proof is removed.
DropSectorProof ==
    /\ Accepted
    /\ \E tj \in 1..Len(vproofs) :
         /\ Len(vproofs[tj].sectors) > 0
         /\ vproofs' = [vproofs EXCEPT ![tj].sectors = SubSeq(@, 1, Len(@) - 1)]
         /\ vpub' = vpub
         /\ Reverify("drop_sector_proof", tj, 0, 0, 0)

\* A sector proof that belongs to no sector: no inclusion proofs.
ForeignSectorProof == [inclusion_proofs |-> <<>>, comm_c |-> 0, comm_r_last |-> 0]

\* The sector proofs a further partition proof may hold: none, a foreign one,
\* or those of a partition proof of the list.
AppendedSectors == {<<>>, <<ForeignSectorProof>>} \cup {vproofs[tj].sectors : tj \in 1..Len(vproofs)}

\* A partition proof is appended.
AppendPartition ==
    /\ Accepted
    /\ \E sectors \in AppendedSectors :
         /\ vproofs' = Append(vproofs, [sectors |-> sectors])
         /\ vpub' = vpub
         /\ Reverify("append_partition", Len(vproofs) + 1, 0, Len(sectors), 0)

\* A sector proof is replaced by a foreign one.
ReplaceSectorProof ==
    /\ Accepted
    /\ \E tj \in 1..Len(vproofs) : \E ti \in 1..Len(vproofs[tj].sectors) :
         /\ vproofs' = [vproofs EXCEPT ![tj].sectors[ti] = ForeignSectorProof]
         /\ vpub' = vpub
         /\ Reverify("replace_sector_proof", tj, ti, 0, 0)

\* The last partition proof is removed.
DropPartition ==
    /\ Accepted
    /\ Len(vproofs) > 0
    /\ vproofs' = SubSeq(vproofs, 1, Len(vproofs) - 1)
    /\ vpub' = vpub
    /\ Reverify("drop_partition", Len(vproofs), 0, 0, 0)

\* The last inclusion proof of a sector proof is removed.
DropInclusionProof ==
    /\ Accepted
    /\ \E tj \in 1..Len(vproofs) : \E ti \in 1..Len(vproofs[tj].sectors) :
         /\ Len(vproofs[tj].sectors[ti].inclusion_proofs) > 0
         /\ vproofs' = [vproofs EXCEPT
                          ![tj].sectors[ti].inclusion_proofs = SubSeq(@, 1, Len(@) - 1)]
         /\ vpub' = vpub
         /\ Reverify("drop_inclusion_proof", tj, ti,
                     Len(vproofs[tj].sectors[ti].inclusion_proofs), 0)

\* The last inclusion proof of a sector proof is given twice.
AppendInclusionProof ==
    /\ Accepted
    /\ \E tj \in 1..Len(vproofs) : \E ti \in 1..Len(vproofs[tj].sectors) :
         /\ Len(vproofs[tj].sectors[ti].inclusion_proofs) > 0
         /\ vproofs' = [vproofs EXCEPT
                          ![tj].sectors[ti].inclusion_proofs = Append(@, @[Len(@)])]
         /\ vpub' = vpub
         /\ Reverify("append_inclusion_proof", tj, ti,
                     Len(vproofs[tj].sectors[ti].inclusion_proofs) + 1, 0)

\* ------------------------------------------------- satisfies_requirements
\* a * b on usize in a build without overflow checks.
wrapping_mul(a, b) == (a * b) % UsizeRange

\* a * b on usize panics in a build with overflow checks when this holds.
MulOverflows(a, b) == a * b >= UsizeRange

\* A checked_mul that answers Some of the wrapped product.
checked_mul_wrapped(a, b) == <<(a * b) % UsizeRange>>

\* usize::checked_mul: Some(product) as <<product>>, None as <<>>.
checked_mul(a, b) == IF a * b < UsizeRange THEN <<a * b>> ELSE <<>>

\* "true" / "false": the returned bool; "panic": the call aborts.
satisfies_requirements(public_params, requirements, partitions, overflow_checks) ==
    LET checked == wrapping_mul(partitions, public_params.sector_count)
        total == wrapping_mul(checked, public_params.challenge_count)
    IN  IF overflow_checks /\ MulOverflows(partitions, public_params.sector_count)
        THEN "panic"
        ELSE IF checked_mul(partitions, public_params.sector_count) # <<checked>>
        THEN "panic"
        ELSE IF overflow_checks /\ MulOverflows(checked, public_params.challenge_count)
        THEN "panic"
        ELSE IF checked_mul(checked, public_params.challenge_count) # <<total>>
        THEN "panic"
        ELSE IF total >= requirements.minimum_challenge_count THEN "true"
        ELSE "false"

\* ------------------------------------------------------- function calls
Returns(vs) == [kind |-> "value", vals |-> vs]
ReturnsOk(vs) == [kind |-> "Ok", vals |-> vs]
Aborts == [kind |-> "panic", vals |-> <<>>]

Call(o, r) ==
    /\ pc = "start"
    /\ op = o
    /\ ret' = r
    /\ pc' = "returned"
    /\ UNCHANGED <<inputs, args, loopv, result, first, verifv>>

CallGenerateLeafChallenge ==
    Call("generate_leaf_challenge",
         IF LeafDivisorIsZero(pp) THEN Aborts
         ELSE Returns(<<generate_leaf_challenge(pp, args.randomness, args.sector_id,
                                                args.index)>>))

CallGenerateLeafChallenges ==
    Call("generate_leaf_challenges",
         IF args.count > 0 /\ LeafDivisorIsZero(pp) THEN Aborts
         ELSE Returns(generate_leaf_challenges(pp, args.randomness, args.sector_id,
                                               args.count)))

CallGenerateSectorChallenge ==
    Call("generate_sector_challenge",
         IF args.sector_set_len = 0 THEN Aborts
         ELSE ReturnsOk(<<generate_sector_challenge(args.randomness, args.index,
                                                    args.sector_set_len, args.prover_id)>>))

CallGenerateSectorChallenges ==
    Call("generate_sector_challenges",
         IF args.count > 0 /\ args.sector_set_len = 0 THEN Aborts
         ELSE ReturnsOk(generate_sector_challenges(args.randomness, args.count,
                                                   args.sector_set_len, args.prover_id)))

CallSatisfiesRequirements ==
    Call("satisfies_requirements",
         [kind |-> satisfies_requirements(
                       pp, [minimum_challenge_count |-> args.minimum_challenge_count],
                       args.partitions, args.overflow_checks),
          vals |-> <<>>])

\* ------------------------------------------------------------------ prove
\* The partition pub_inputs.k names: 0 for None.
PartitionWanted(pub) == IF pub.k = None THEN 0 ELSE pub.k[1]

\* The aborts of prove: the assert!(k < 1) and the index of proofs[k].
AssertAbort == [kind |-> "panic", vals |-> <<"assert">>]
IndexAbort == [kind |-> "panic", vals |-> <<"index">>]

\* prove, from what prove_all_partitions(pub_params, pub, priv, 1) gave.
prove(pub, res) ==
    IF res.kind = "panic" THEN Aborts
    ELSE IF res.kind # "Ok" THEN [kind |-> res.kind, vals |-> res.faults]
    ELSE IF ~(PartitionWanted(pub) < 1) THEN AssertAbort
    ELSE IF PartitionWanted(pub) >= Len(res.proofs) THEN IndexAbort
    ELSE ReturnsOk(<<res.proofs[PartitionWanted(pub) + 1]>>)

\* prove_all_partitions has finished inside prove.
ProveReturn ==
    /\ pc = "proved"
    /\ op = "prove"
    /\ ret' = prove(pub_inputs, result)
    /\ pc' = "returned"
    /\ UNCHANGED <<inputs, args, loopv, result, first, verifv>>

\* ------------------------------------------------------------ properties
Proving == op = "prove_all_partitions"
Returned == Proving /\ pc = "done" /\ first.kind = "none"
NumSectors == Len(pub_inputs.sectors)
EntryChecksPass ==
    /\ Len(priv_inputs.sectors) = NumSectors
    /\ NumSectors <= partition_count * pp.sector_count
AllHonest == \A p \in 1..Len(conds) : conds[p] = "honest"
\* verify_all_partitions has answered on exactly what the prover returned
VerifiedAsProven == Proving /\ verdict # "none" /\ tamper.kind = "none"

\* C1: a Window input without faulty sector that prove_all_partitions accepts
\* verifies: verify_all_partitions answers Ok(true) on the returned proofs.
C1_WindowRoundTrip ==
    (pp.shape = "Window" /\ AllHonest /\ VerifiedAsProven) => verdict = "true"

\* The leaves the challenges of input sector p address.
ChallengedLeaves(p) ==
    {generate_leaf_challenge(pp, pub_inputs.randomness, pub_inputs.sectors[p].id, n) :
        n \in 0..(pp.challenge_count - 1)}
\* Input sector p cannot be proven: its tree is another replica's, its comm_r
\* is not hash2(comm_c, comm_r_last), or its tree fails on a challenged leaf.
FaultyAt(p) ==
    \/ conds[p] \in {"wrong_tree", "bad_comm_r"}
    \/ conds[p] = "flaky" /\ ChallengedLeaves(p) \cap {1, 2} # {}
FaultyIds == {pub_inputs.sectors[p].id : p \in {q \in 1..NumSectors : FaultyAt(q)}}
IsFaultList(res, ids) ==
    /\ res.kind = "FaultySectors"
    /\ {res.faults[n] : n \in 1..Len(res.faults)} = ids
    /\ \A a, b \in 1..Len(res.faults) : a < b => res.faults[a] < res.faults[b]

C3_LengthIsPartitionCount ==
    (Returned /\ pp.shape = "Window" /\ result.kind = "Ok")
      => Len(result.proofs) = partition_count

\* C3 amended: a successful Window call returns one proof per non-empty chunk,
\* ceil(num_sectors / sector_count) of them, which is at most partition_count.
C3_LengthIsChunkCount ==
    (Returned /\ pp.shape = "Window" /\ result.kind = "Ok")
      => /\ Len(result.proofs) * pp.sector_count >= NumSectors
         /\ (Len(result.proofs) - 1) * pp.sector_count < NumSectors
         /\ Len(result.proofs) <= partition_count

\* Two chunks proven.
C3_Witness ==
    /\ Returned /\ pp.shape = "Window" /\ result.kind = "Ok"
    /\ Len(result.proofs) = 2 /\ partition_count = 2

\* Sector proof ti of partition proof tj (from 1) is read by the verifier: it
\* is zipped with a public sector.
PairedSlot(tj, ti) ==
    /\ tj <= NumChunks(Len(vpub), pp.sector_count)
    /\ ti <= ChunkLen(tj - 1, pp.sector_count, Len(vpub))

\* C4 as stated: after a change of one sibling, comm_c or comm_r_last in an
\* accepted proof list, verify_all_partitions never answers Ok(true).
C4_AnyTamperRejected ==
    tamper.kind \in {"sibling", "comm_c", "comm_r_last"} => verdict # "true"

\* C4 amended: after a change of one sibling of an inclusion path or of the
\* comm_c of a sector proof that is paired with a public sector,
\* verify_all_partitions answers Ok(false).
C4_PairedTamperRejected ==
    (tamper.kind \in {"sibling", "comm_c"} /\ PairedSlot(tamper.j, tamper.i))
      => verdict = "false"

\* A sibling of the second inclusion proof of a sector proof was changed.
C4_Witness ==
    /\ tamper.kind = "sibling" /\ tamper.n = 2 /\ PairedSlot(tamper.j, tamper.i)
    /\ verdict = "false"

\* C5: after the comm_r of two public sectors with different comm_r are
\* exchanged in accepted inputs, verify_all_partitions answers Ok(false).
C5_SwapRejected ==
    tamper.kind = "swap_comm_r" => verdict = "false"

C5_Witness ==
    /\ tamper.kind = "swap_comm_r" /\ verdict = "false"
    /\ vpub[1].comm_r = pub_inputs.sectors[2].comm_r
    /\ vpub[1].comm_r # pub_inputs.sectors[1].comm_r

\* C6: a second invocation of prove_all_partitions on the same inputs returns
\* what the first one returned (the same proofs or the same fault list),
\* whatever order the closures finished in.
C6_Deterministic ==
    (Proving /\ pc = "done" /\ first.kind # "none") => result = first

\* Two invocations that succeeded, with two challenges for each of two sectors.
C6_Witness ==
    /\ pc = "done" /\ first.kind = "Ok" /\ Proving
    /\ pp.challenge_count = 2 /\ NumSectors = 2

\* Inclusion proof n (from 1) of a sector proof is the proof of the leaf that
\* the challenge of index n - 1 of sector id addresses.
ProofOfChallenge(proof, id, n) ==
    /\ PathIndex(proof.path, 1) = generate_leaf_challenge(pp, pub_inputs.randomness, id, n - 1)
    /\ proof.leaf = TreeData(id, pp.sector_size \div NODE_SIZE)[PathIndex(proof.path, 1)]

\* C7: in what a successful Window prove_all_partitions or vanilla_proof
\* returns, inclusion proof n of a sector proof is the proof of challenge n,
\* and sector proof ii of partition jj belongs to input sector
\* (jj - 1) * sector_count + ii.
C7_ChallengeOrder ==
    (pc = "done" /\ result.kind = "Ok" /\ (pp.shape = "Window" \/ ~Proving))
      => \A jj \in 1..Len(result.proofs) :
           \A ii \in 1..(IF Proving THEN ChunkLen(jj - 1, pp.sector_count, NumSectors) ELSE 1) :
             LET p == (jj - 1) * pp.sector_count + ii
                 sp == result.proofs[jj].sectors[ii]
             IN  /\ sp.comm_c = priv_inputs.sectors[p].comm_c
                 /\ sp.comm_r_last = priv_inputs.sectors[p].comm_r_last
                 /\ Len(sp.inclusion_proofs) = pp.challenge_count
                 /\ \A n \in 1..Len(sp.inclusion_proofs) :
                      ProofOfChallenge(sp.inclusion_proofs[n], pub_inputs.sectors[p].id, n)

\* Two partitions, two challenges per sector.
C7_Witness ==
    /\ Returned /\ result.kind = "Ok" /\ pp.shape = "Window"
    /\ Len(result.proofs) = 2 /\ pp.challenge_count = 2

\* vanilla_proof returned two inclusion proofs.
C7_WitnessVanilla ==
    /\ ~Proving /\ pc = "done" /\ result.kind = "Ok"
    /\ Len(result.proofs[1].sectors[1].inclusion_proofs) = 2

\* C8: every partition proof of a successful Window prove_all_partitions has
\* sector_count sector proofs, and the ones beyond the chunk's sectors are
\* copies of the sector proof of the chunk's last sector.
C8_Padding ==
    (Returned /\ pp.shape = "Window" /\ result.kind = "Ok")
      => \A jj \in 1..Len(result.proofs) :
           LET real == ChunkLen(jj - 1, pp.sector_count, NumSectors)
               ss == result.proofs[jj].sectors
           IN  /\ Len(ss) = pp.sector_count
               /\ real >= 1
               /\ ss[real].comm_c = priv_inputs.sectors[ChunkHi(jj - 1, pp.sector_count, NumSectors)].comm_c
               /\ \A ii \in (real + 1)..Len(ss) : ss[ii] = ss[real]

\* A chunk of two sectors padded to three sector proofs.
C8_Witness ==
    /\ Returned /\ pp.shape = "Window" /\ result.kind = "Ok"
    /\ NumSectors = 2 /\ pp.sector_count = 3 /\ pp.challenge_count >= 1
    /\ result.proofs[1].sectors[3] = result.proofs[1].sectors[2]
    /\ result.proofs[1].sectors[3] # result.proofs[1].sectors[1]

\* What scenario S6 expects of a Winning call: one partition proof with
\* sector_count inclusion proofs, one per sector slot, that verifies.
WinningOutcome ==
    /\ pc = "done" =>
         /\ result.kind = "Ok"
         /\ Len(result.proofs) = 1
         /\ Len(result.proofs[1].sectors) = pp.sector_count
         /\ \A ii \in 1..pp.sector_count :
               Len(result.proofs[1].sectors[ii].inclusion_proofs) = 1
    /\ VerifiedAsProven => verdict = "true"

WinningS6 ==
    /\ Proving /\ first.kind = "none"
    /\ pp.shape = "Winning" /\ pp.challenge_count = 1 /\ pp.sector_count >= 1
    /\ partition_count = 1 /\ AllHonest

\* C9 as stated: Winning, challenge_count = 1, sector_count = k >= 1, public and
\* private inputs of one honest sector, 1 partition: the call succeeds with one
\* partition proof of k inclusion proofs, and it verifies.
C9_WinningSingleSector ==
    (WinningS6 /\ NumSectors = 1 /\ Len(priv_inputs.sectors) = 1) => WinningOutcome

\* C9 amended: the same when the public and private inputs hold the honest
\* sector sector_count = k times.
C9_WinningRepeatedSector ==
    (WinningS6 /\ NumSectors = pp.sector_count /\ Len(priv_inputs.sectors) = NumSectors
       /\ \A p \in 1..NumSectors : pub_inputs.sectors[p] = pub_inputs.sectors[1])
      => WinningOutcome

\* k = 2: the sector given twice, proven and verified.
C9_Witness ==
    /\ WinningS6 /\ NumSectors = 2 /\ pp.sector_count = 2
    /\ pub_inputs.sectors[2] = pub_inputs.sectors[1]
    /\ VerifiedAsProven /\ verdict = "true"

Verified == verdict # "none"

\* C10 as stated: verify_all_partitions answers with an error whenever
\* num_sectors > sector_count * partition_proofs.len() and whenever a
\* partition proof of the list has sectors.len() # sector_count.
C10_AnyWrongLengthIsError ==
    (Verified /\ (\/ Len(vpub) > pp.sector_count * Len(vproofs)
                  \/ \E tj \in 1..Len(vproofs) : Len(vproofs[tj].sectors) # pp.sector_count))
      => verdict = "err"

\* C10 amended: an error whenever num_sectors > sector_count * len, and whenever
\* a partition proof that is zipped with a public chunk has
\* sectors.len() # sector_count while all partition proofs before it have
\* sector_count sector proofs and pass their checks.
C10_PairedWrongLengthIsError ==
    Verified =>
      /\ Len(vpub) > pp.sector_count * Len(vproofs) => verdict = "err"
      /\ \A tj \in 1..Len(vproofs) :
           (/\ Len(vpub) <= pp.sector_count * Len(vproofs)
            /\ pp.sector_count > 0
            /\ tj <= NumChunks(Len(vpub), pp.sector_count)
            /\ Len(vproofs[tj].sectors) # pp.sector_count
            /\ \A e \in 1..(tj - 1) :
                 /\ Len(vproofs[e].sectors) = pp.sector_count
                 /\ VerifySectors(pp, pub_inputs.randomness, vpub, vproofs, e - 1, 0) = "true")
             => verdict = "err"

\* A sector proof is missing in the second partition proof.
C10_Witness ==
    /\ tamper.kind = "drop_sector_proof" /\ tamper.j = 2 /\ verdict = "err"

\* The last partition proof is missing.
C10_WitnessTooFew ==
    /\ tamper.kind = "drop_partition" /\ verdict = "err"
    /\ Len(vpub) > pp.sector_count * Len(vproofs)

\* The sector proof whose number of inclusion proofs was changed is read by
\* the verifier, and it now holds tamper.n' inclusion proofs.
CountChanged ==
    /\ tamper.kind \in {"drop_inclusion_proof", "append_inclusion_proof"}
    /\ PairedSlot(tamper.j, tamper.i)
    /\ Len(vproofs[tamper.j].sectors[tamper.i].inclusion_proofs) # pp.challenge_count

\* C11: when a sector proof that verify_all_partitions examines holds a number
\* of inclusion proofs different from challenge_count, none included, the
\* verifier returns an error.
C11_WrongCountIsError ==
    CountChanged => verdict = "err"

\* With at least one inclusion proof left, a wrong number of them is an error.
C11_WrongNonZeroCountIsError ==
    (CountChanged /\ Len(vproofs[tamper.j].sectors[tamper.i].inclusion_proofs) > 0)
      => verdict = "err"

\* One of two inclusion proofs was removed, and one was added.
C11_WitnessNonZero ==
    /\ CountChanged /\ tamper.kind = "drop_inclusion_proof"
    /\ Len(vproofs[tamper.j].sectors[tamper.i].inclusion_proofs) = 1
    /\ verdict = "err"

CallReturned(o) == op = o /\ pc = "returned"

\* C12: satisfies_requirements answers partitions * sector_count *
\* challenge_count >= minimum_challenge_count, computed without wrap-around,
\* when neither product overflows usize, and aborts (no bool) when
\* partitions * sector_count or that product times challenge_count overflows.
C12_NoWrappedProduct ==
    CallReturned("satisfies_requirements") =>
      LET checked == args.partitions * pp.sector_count
          total == checked * pp.challenge_count
      IN  IF checked >= UsizeRange \/ total >= UsizeRange
          THEN ret.kind = "panic"
          ELSE ret.kind = (IF total >= args.minimum_challenge_count THEN "true" ELSE "false")

\* Without overflow checks, a second product that wraps to a value above the
\* minimum is reported as a failure; and an exact product gives a bool.
C12_Witness ==
    /\ CallReturned("satisfies_requirements") /\ ~args.overflow_checks
    /\ args.partitions * pp.sector_count < UsizeRange
    /\ args.partitions * pp.sector_count * pp.challenge_count >= UsizeRange
    /\ wrapping_mul(args.partitions * pp.sector_count, pp.challenge_count)
          >= args.minimum_challenge_count
    /\ args.minimum_challenge_count > 0
    /\ ret.kind = "panic"

C12_WitnessBool ==
    /\ CallReturned("satisfies_requirements")
    /\ args.partitions = 3 /\ pp.sector_count = 3 /\ pp.challenge_count = 1
    /\ args.minimum_challenge_count = 9 /\ ret.kind = "true"

InLeafRange(v) == 0 <= v /\ v < pp.sector_size \div NODE_SIZE
InSetRange(v) == 0 <= v /\ v < args.sector_set_len

\* What C13 says of the leaf challenges, and of the sector challenges for
\* sector_set_len > 0.
LeafChallengesInRange ==
    /\ CallReturned("generate_leaf_challenge")
         => ret.kind = "value" /\ Len(ret.vals) = 1 /\ InLeafRange(ret.vals[1])
    /\ CallReturned("generate_leaf_challenges")
         => /\ ret.kind = "value" /\ Len(ret.vals) = args.count
            /\ \A n \in 1..Len(ret.vals) : InLeafRange(ret.vals[n])
SectorChallengesInRange ==
    /\ (CallReturned("generate_sector_challenge") /\ args.sector_set_len > 0)
         => ret.kind = "Ok" /\ Len(ret.vals) = 1 /\ InSetRange(ret.vals[1])
    /\ (CallReturned("generate_sector_challenges") /\ args.sector_set_len > 0)
         => /\ ret.kind = "Ok" /\ Len(ret.vals) = args.count
            /\ \A n \in 1..Len(ret.vals) :
                 /\ InSetRange(ret.vals[n])
                 /\ ret.vals[n] = generate_sector_challenge(args.randomness, n - 1,
                                                            args.sector_set_len, args.prover_id)

\* C13: for all inputs generate_leaf_challenge and every element of
\* generate_leaf_challenges are below sector_size / 32; for sector_set_len > 0
\* generate_sector_challenge is Ok(v) with v < sector_set_len, and
\* generate_sector_challenges is `count` of them, in index order.
C13_ChallengeRange ==
    LeafChallengesInRange /\ SectorChallengesInRange

\* The same for leaf challenges when sector_size >= NODE_SIZE only.
C13_ChallengeRangeOfSectors ==
    (pp.sector_size >= NODE_SIZE => LeafChallengesInRange) /\ SectorChallengesInRange

C13_WitnessLeaf ==
    /\ CallReturned("generate_leaf_challenges") /\ args.count = 2
    /\ pp.sector_size = 2 * NODE_SIZE /\ ret.vals = <<1, 0>>

C13_WitnessSector ==
    /\ CallReturned("generate_sector_challenges") /\ args.count = 2
    /\ args.sector_set_len = 3 /\ ret.kind = "Ok" /\ ret.vals[1] # ret.vals[2]

\* C14: from the call of prove_all_partitions with public.sectors.len() #
\* private.sectors.len(), or with shape Window and num_sectors >
\* partition_count * sector_count, the only step is the return of the
\* precondition error: no closure has run (no tree call), no proof and no
\* fault was recorded.
C14_PreconditionError ==
    [][(/\ Proving /\ pc = "start"
        /\ \/ Len(priv_inputs.sectors) # NumSectors
           \/ pp.shape = "Window" /\ NumSectors > partition_count * pp.sector_count)
         => (pc' = "done" /\ result' = Err /\ UNCHANGED loopv)]_vars

\* A Window call with more sectors than partition_count * sector_count has
\* returned the error, with nothing proven.
C14_Witness ==
    /\ Returned /\ pp.shape = "Window" /\ Len(priv_inputs.sectors) = NumSectors
    /\ pp.sector_count > 0 /\ partition_count > 0
    /\ NumSectors > partition_count * pp.sector_count
    /\ result = Err /\ partition_proofs = <<>> /\ faulty_sectors = {}

\* A call with fewer private than public sectors has returned the error.
C14_WitnessLen ==
    /\ Returned /\ Len(priv_inputs.sectors) < NumSectors /\ result = Err

WinningPreconditions ==
    NumSectors = pp.sector_count /\ pp.sector_count > 0 /\ pp.challenge_count = 1

\* Winning: the first sector cannot be proven on one of the sector_count
\* challenges.
WinningFaulty ==
    \/ conds[1] \in {"wrong_tree", "bad_comm_r"}
    \/ /\ conds[1] = "flaky"
       /\ \E n \in 0..(pp.sector_count - 1) :
            generate_leaf_challenge(pp, pub_inputs.randomness, pub_inputs.sectors[1].id, n)
              \in {1, 2}

C15_WitnessError ==
    /\ Returned /\ pp.shape = "Winning" /\ Len(priv_inputs.sectors) = NumSectors
    /\ NumSectors = pp.sector_count /\ pp.sector_count > 0 /\ pp.challenge_count = 2
    /\ result = Err

\* vanilla_proof: the tree of the only private sector fails on a challenged
\* leaf, answers it with the proof of another leaf, or has another root than
\* comm_r_last.
VanillaRejects ==
    \E leaf \in ChallengedLeaves(1) :
       \/ conds[1] = "wrong_tree"
       \/ conds[1] = "flaky" /\ leaf \in {1, 2}

\* C16: vanilla_proof returns an error when the private inputs do not hold
\* exactly one sector; it returns an error, and neither FaultySectors nor
\* proofs, when a challenge's tree call fails, its proof does not validate at
\* the challenged leaf or its root differs from comm_r_last; otherwise it
\* returns a Proof of one SectorProof with one inclusion proof per challenge
\* and the sector's comm_c and comm_r_last.
C16_VanillaProof ==
    (op = "vanilla_proof" /\ pc = "done") =>
      IF Len(priv_inputs.sectors) # 1 THEN result = Err
      ELSE IF VanillaRejects THEN result = Err
      ELSE /\ result.kind = "Ok"
           /\ Len(result.proofs) = 1
           /\ Len(result.proofs[1].sectors) = 1
           /\ LET sp == result.proofs[1].sectors[1]
              IN  /\ Len(sp.inclusion_proofs) = pp.challenge_count
                  /\ sp.comm_c = priv_inputs.sectors[1].comm_c
                  /\ sp.comm_r_last = priv_inputs.sectors[1].comm_r_last

\* The tree failed on one of two challenges while the other closure had
\* produced its proof (or had not run yet).
C16_Witness ==
    /\ op = "vanilla_proof" /\ pc = "done" /\ first.kind = "none"
    /\ Len(priv_inputs.sectors) = 1 /\ conds[1] = "flaky" /\ pp.challenge_count = 2
    /\ result = Err

\* Two private sectors are refused.
C16_WitnessTwoSectors ==
    /\ op = "vanilla_proof" /\ pc = "done" /\ Len(priv_inputs.sectors) = 2 /\ result = Err

\* The checks C17 lists, for sector proof sp paired with pub_sector at
\* position vi of its chunk.
SectorChecksPass(pub_sector, sp, vi) ==
    /\ Len(sp.inclusion_proofs) > 0
    /\ hash2(sp.comm_c, ProofRoot(sp.inclusion_proofs[1])) = pub_sector.comm_r
    /\ Len(sp.inclusion_proofs) = pp.challenge_count
    /\ \A n \in 1..Len(sp.inclusion_proofs) :
         LET inclusion_proof == sp.inclusion_proofs[n]
         IN  /\ ProofRoot(inclusion_proof) = ProofRoot(sp.inclusion_proofs[1])
             /\ Len(inclusion_proof.path) = ExpectedLen(pp.sector_size \div NODE_SIZE)
             /\ Validate(inclusion_proof,
                         generate_leaf_challenge(pp, pub_inputs.randomness, pub_sector.id,
                                                 IF pp.shape = "Winning" THEN vi ELSE n - 1))

\* Every public sector has its sector proof, and the sector proof passes.
EveryPublicSectorPasses ==
    \A q \in 1..Len(vpub) :
       /\ pp.sector_count > 0
       /\ LET vj == (q - 1) \div pp.sector_count
              vi == (q - 1) % pp.sector_count
          IN  /\ vj + 1 <= Len(vproofs)
              /\ vi + 1 <= Len(vproofs[vj + 1].sectors)
              /\ SectorChecksPass(vpub[q], vproofs[vj + 1].sectors[vi + 1], vi)

\* C17: verify_all_partitions answers Ok(true) only if every public sector's
\* sector proof binds to comm_r, has challenge_count inclusion proofs, and each
\* of them has the first one's root, the expected path length and validates
\* at the derived leaf challenge; when one of these fails the answer is
\* Ok(false) or an error.
C17_Soundness ==
    Verified =>
      /\ verdict = "true" => EveryPublicSectorPasses
      /\ ~EveryPublicSectorPasses => verdict \in {"false", "err"}

\* The first half alone: Ok(true) only if every public sector passes.
C17_TrueOnlyIfChecksPass ==
    (Verified /\ verdict = "true") => EveryPublicSectorPasses

\* Ok(true) for three public sectors in two partitions, and Ok(false) for a
\* sector proof with another comm_c.
C17_WitnessTrue ==
    /\ verdict = "true" /\ Len(vpub) = 3 /\ Len(vproofs) = 2 /\ pp.challenge_count = 2
    /\ EveryPublicSectorPasses

C17_WitnessFalse ==
    /\ verdict = "false" /\ tamper.kind = "built_comm_c" /\ ~EveryPublicSectorPasses

WinningSucceeded ==
    /\ Proving /\ first.kind = "none" /\ pp.shape = "Winning"
    /\ pc = "done" /\ result.kind = "Ok"

\* C18: when a Winning prove_all_partitions succeeds, the single Proof has
\* sector_count sector proofs of one inclusion proof each, and
\* verify_all_partitions on the same public inputs answers Ok(true), also for
\* public sectors with different ids or comm_r.
C18_WinningRoundTrip ==
    WinningSucceeded =>
      /\ Len(result.proofs) = 1
      /\ Len(result.proofs[1].sectors) = pp.sector_count
      /\ \A ii \in 1..pp.sector_count :
            Len(result.proofs[1].sectors[ii].inclusion_proofs) = 1
      /\ VerifiedAsProven => verdict = "true"

\* The same for public inputs that repeat one sector.
C18_WinningRoundTripOfOneSector ==
    (WinningSucceeded /\ \A q \in 1..NumSectors : pub_inputs.sectors[q] = pub_inputs.sectors[1])
      => /\ Len(result.proofs) = 1
         /\ Len(result.proofs[1].sectors) = pp.sector_count
         /\ \A ii \in 1..pp.sector_count :
               Len(result.proofs[1].sectors[ii].inclusion_proofs) = 1
         /\ VerifiedAsProven => verdict = "true"

\* A repeated sector whose second private entry is another replica's tree.
C18_WitnessOneSector ==
    /\ WinningSucceeded /\ NumSectors = 2
    /\ pub_inputs.sectors[2] = pub_inputs.sectors[1] /\ conds[2] = "wrong_tree"
    /\ VerifiedAsProven /\ verdict = "true"

\* C19: a successful Window prove_all_partitions returns one partition proof
\* per non-empty chunk, NumChunks = ceil(num_sectors / sector_count) of them;
\* that is at most partition_count, and fewer when partition_count is larger
\* than the number of chunks; every partition proof starts with the sector
\* proof of a sector of its chunk, so none is empty or padding only.
C19_WindowPartitionCount ==
    (Returned /\ pp.shape = "Window" /\ result.kind = "Ok") =>
      LET chunks == NumChunks(NumSectors, pp.sector_count)
      IN  /\ Len(result.proofs) = chunks
          /\ chunks <= partition_count
          /\ (partition_count * pp.sector_count >= NumSectors + pp.sector_count
                => Len(result.proofs) < partition_count)
          /\ \A jj \in 1..Len(result.proofs) :
                /\ ChunkLen(jj - 1, pp.sector_count, NumSectors) >= 1
                /\ Len(result.proofs[jj].sectors) >= 1
                /\ result.proofs[jj].sectors[1].comm_c
                     = priv_inputs.sectors[ChunkLo(jj - 1, pp.sector_count)].comm_c

\* One sector, sector_count = 1, partition_count = 2: one partition proof.
C19_Witness ==
    /\ Returned /\ pp.shape = "Window" /\ result.kind = "Ok"
    /\ NumSectors = 1 /\ pp.sector_count = 1 /\ partition_count = 2
    /\ Len(result.proofs) = 1

\* No sector, partition_count = 2: no partition proof.
C19_WitnessEmpty ==
    /\ Returned /\ pp.shape = "Window" /\ result.kind = "Ok"
    /\ NumSectors = 0 /\ partition_count = 2 /\ result.proofs = <<>>

\* Sector proof (vj, vi), from 0, is paired with a public sector.
Paired(vj, vi) ==
    /\ pp.sector_count > 0
    /\ vj < Len(vproofs) /\ vj < NumChunks(Len(vpub), pp.sector_count)
    /\ vi < Len(vproofs[vj + 1].sectors)
    /\ vi < ChunkLen(vj, pp.sector_count, Len(vpub))
PublicOf(vj, vi) == vpub[vj * pp.sector_count + vi + 1]
ProofAt(vj, vi) == vproofs[vj + 1].sectors[vi + 1]
IndexOf(vi, n) == IF pp.shape = "Winning" THEN vi ELSE n

\* Sector proof (vj, vi) binds to comm_r and has challenge_count inclusion proofs.
SectorHeadPasses(vj, vi) ==
    /\ Len(ProofAt(vj, vi).inclusion_proofs) > 0
    /\ hash2(ProofAt(vj, vi).comm_c, ProofRoot(ProofAt(vj, vi).inclusion_proofs[1]))
         = PublicOf(vj, vi).comm_r
    /\ Len(ProofAt(vj, vi).inclusion_proofs) = pp.challenge_count

\* Inclusion proof n (from 0) of sector proof (vj, vi) has the first one's
\* root and the expected path length.
InclusionShapePasses(vj, vi, n) ==
    LET ips == ProofAt(vj, vi).inclusion_proofs
    IN  /\ ProofRoot(ips[n + 1]) = ProofRoot(ips[1])
        /\ Len(ips[n + 1].path) = ExpectedLen(pp.sector_size \div NODE_SIZE)

ValidatesAt(vj, vi, n, index) ==
    Validate(ProofAt(vj, vi).inclusion_proofs[n + 1],
             generate_leaf_challenge(pp, pub_inputs.randomness, PublicOf(vj, vi).id, index))

LegacyHolds(vj, vi, n) ==
    pp.shape = "Winning" => (vj * pp.sector_count + vi) * pp.challenge_count + n = vi

InclusionPasses(vj, vi, n) ==
    /\ LegacyHolds(vj, vi, n)
    /\ InclusionShapePasses(vj, vi, n)
    /\ ValidatesAt(vj, vi, n, IndexOf(vi, n))

SectorPasses(vj, vi) ==
    /\ SectorHeadPasses(vj, vi)
    /\ \A n \in 0..(Len(ProofAt(vj, vi).inclusion_proofs) - 1) : InclusionPasses(vj, vi, n)

\* The verifier's loop gets to inclusion proof n of sector proof (vj, vi):
\* the entry check and the length checks of the partitions up to vj pass,
\* every paired sector proof before (vj, vi) passes, sector proof (vj, vi)
\* binds and has challenge_count inclusion proofs, and its inclusion proofs
\* before n pass.
Reaches(vj, vi, n) ==
    /\ Len(vpub) <= pp.sector_count * Len(vproofs)
    /\ Paired(vj, vi)
    /\ \A e \in 1..(vj + 1) : Len(vproofs[e].sectors) = pp.sector_count
    /\ \A ej \in 0..vj : \A ei \in 0..(pp.sector_count - 1) :
         (Paired(ej, ei) /\ (ej < vj \/ ei < vi)) => SectorPasses(ej, ei)
    /\ SectorHeadPasses(vj, vi)
    /\ n < Len(ProofAt(vj, vi).inclusion_proofs)
    /\ \A m \in 0..(n - 1) : InclusionPasses(vj, vi, m)

Slots == (0..MaxPartitions) \X (0..MaxSectorCount) \X (0..(MaxChallenges + 1))

\* C20 as stated: with shape Winning, verify_all_partitions answers with an
\* error whenever a paired sector proof (j, i) has an inclusion proof n with
\* (j * sector_count + i) * challenge_count + n # i.
C20_AnyLegacyMismatchIsError ==
    (Verified /\ pp.shape = "Winning"
       /\ \E t \in Slots :
            /\ Paired(t[1], t[2])
            /\ t[3] < Len(ProofAt(t[1], t[2]).inclusion_proofs)
            /\ ~LegacyHolds(t[1], t[2], t[3]))
      => verdict = "err"

\* C20 amended: when the verifier's loop gets to inclusion proof n of sector
\* proof (j, i), with shape Winning and a legacy index # i the answer is an
\* error; else the inclusion proof is validated at the leaf challenge of
\* index i (Winning) or n (Window): one that has the root and the path length
\* but does not validate there gives Ok(false).
C20_ReachedLegacyMismatchIsError ==
    Verified =>
      \A t \in Slots :
        Reaches(t[1], t[2], t[3]) =>
          IF ~LegacyHolds(t[1], t[2], t[3]) THEN verdict = "err"
          ELSE (/\ InclusionShapePasses(t[1], t[2], t[3])
                /\ ~ValidatesAt(t[1], t[2], t[3], IndexOf(t[2], t[3])))
                 => verdict = "false"

\* Winning: the first sector proof of the second partition proof is reached
\* and answered with the error.
C20_Witness ==
    /\ Verified /\ pp.shape = "Winning" /\ pp.challenge_count = 1
    /\ Reaches(1, 0, 0) /\ ~LegacyHolds(1, 0, 0) /\ verdict = "err"

\* Winning: the second sector proof holds the proof of challenge 0, not 1.
C20_WitnessIndex ==
    /\ Verified /\ pp.shape = "Winning" /\ pp.challenge_count = 1
    /\ Reaches(0, 1, 0) /\ ValidatesAt(0, 1, 0, 0) /\ ~ValidatesAt(0, 1, 0, 1)
    /\ verdict = "false"

\* ------------------------------------------------------------------ C21
\* The contents of a sector-proof slot were changed.
ContentsChanged ==
    tamper.kind \in {"sibling", "comm_c", "comm_r_last", "drop_inclusion_proof",
                     "append_inclusion_proof", "replace_sector_proof"}

\* C21: after the contents of a sector-proof slot that is paired with no
\* public sector were changed in an accepted proof list, or a partition
\* proof of any content was appended to it, verify_all_partitions still
\* answers Ok(true).
C21_UnpairedChangeKeepsTrue ==
    (\/ ContentsChanged /\ ~PairedSlot(tamper.j, tamper.i)
     \/ tamper.kind = "append_partition")
    => verdict = "true"

\* A padded slot replaced by a foreign sector proof, still accepted.
C21_Witness ==
    /\ tamper.kind = "replace_sector_proof" /\ ~PairedSlot(tamper.j, tamper.i)
    /\ tamper.j <= NumChunks(Len(vpub), pp.sector_count)
    /\ pp.challenge_count > 0
    /\ verdict = "true"

\* An appended partition proof of foreign content, still accepted.
C21_WitnessAppended ==
    /\ tamper.kind = "append_partition" /\ tamper.n > 0
    /\ vproofs[tamper.j].sectors[1] = ForeignSectorProof
    /\ Len(vpub) > 0
    /\ verdict = "true"

\* The same change in a paired slot is noticed.
C21_WitnessPaired ==
    /\ tamper.kind = "replace_sector_proof" /\ PairedSlot(tamper.j, tamper.i)
    /\ verdict # "true"

\* ------------------------------------------------------------------ C22
\* prove has returned or aborted; `result` is what prove_all_partitions gave.
Proved == op = "prove" /\ pc = "returned"

\* prove hands on the error of prove_all_partitions.
ProveHandsOnError ==
    result.kind \in {"Err", "FaultySectors"}
        => ret = [kind |-> result.kind, vals |-> result.faults]

\* prove aborts on the assertion when proving succeeded and k >= 1.
ProveAssertsSinglePartition ==
    (result.kind = "Ok" /\ PartitionWanted(pub_inputs) >= 1) => ret = AssertAbort

\* C22 as stated: when prove_all_partitions succeeded and k is None or
\* Some(0), the result has a first element and prove returns it; when it
\* failed, prove returns the same error; when it succeeded and k >= 1, prove
\* aborts on the assertion.
C22_ProveReturnsFirst ==
    Proved =>
        /\ (result.kind = "Ok" /\ PartitionWanted(pub_inputs) = 0)
              => /\ Len(result.proofs) > 0
                 /\ ret = ReturnsOk(<<result.proofs[1]>>)
        /\ ProveHandsOnError
        /\ ProveAssertsSinglePartition

\* The same, for a result of prove_all_partitions that is not empty.
C22_ProveReturnsFirstOfNonEmpty ==
    Proved =>
        /\ (result.kind = "Ok" /\ PartitionWanted(pub_inputs) = 0 /\ Len(result.proofs) > 0)
              => ret = ReturnsOk(<<result.proofs[1]>>)
        /\ ProveHandsOnError
        /\ ProveAssertsSinglePartition

\* An empty Window sector list: Ok of no partition proof, and proofs[0] aborts.
C22_WitnessEmpty ==
    /\ Proved /\ pp.shape = "Window" /\ NumSectors = 0
    /\ result = Ok(<<>>) /\ pub_inputs.k = None /\ ret = IndexAbort

C22_WitnessFirst ==
    /\ Proved /\ NumSectors = 2 /\ pub_inputs.k = Some(0)
    /\ ret.kind = "Ok" /\ Len(ret.vals[1].sectors) = 3

C22_WitnessError ==
    /\ Proved /\ pub_inputs.k = Some(1) /\ result.kind = "FaultySectors"
    /\ ret.kind = "FaultySectors" /\ Len(ret.vals) = 2

C22_WitnessAssert ==
    /\ Proved /\ pub_inputs.k = Some(1) /\ result.kind = "Ok" /\ ret = AssertAbort

\* ------------------------------------------------------------------ C23
\* prove_all_partitions (called directly or by prove) has aborted.
ProverAborted == op \in {"prove_all_partitions", "prove"} /\ result.kind = "panic"
VerifierAborted == verdict = "panic"

\* A sector proof that is paired with a public sector has no inclusion proof.
PairedWithoutInclusionProofs ==
    \E vj \in 0..(Len(vproofs) - 1) : \E vi \in 0..(pp.sector_count - 1) :
        Paired(vj, vi) /\ Len(ProofAt(vj, vi).inclusion_proofs) = 0

\* C23 as stated: prove_all_partitions and verify_all_partitions never abort.
C23_NoAbort == ~ProverAborted /\ ~VerifierAborted

\* The aborts are those of chunks(0), of inclusion_proofs[0] and of the
\* remainder by sector_size / NODE_SIZE = 0.
C23_AbortOnlyOnZeroOrEmpty ==
    /\ ProverAborted => (pp.shape = "Window" /\ pp.sector_count = 0 /\ NumSectors = 0)
    /\ VerifierAborted =>
          \/ pp.sector_count = 0 /\ Len(vpub) = 0
          \/ PairedWithoutInclusionProofs
          \/ LeafDivisorIsZero(pp) /\ pp.challenge_count > 0 /\ Len(vpub) > 0

\* chunks(0) in the prover and in the verifier.
C23_WitnessChunks == ProverAborted /\ pp.sector_count = 0 /\ op = "prove_all_partitions"

C23_WitnessChunksVerify == VerifierAborted /\ pp.sector_count = 0

\* inclusion_proofs[0] of an empty list.
C23_WitnessIndex ==
    /\ VerifierAborted /\ pp.sector_count > 0 /\ ~LeafDivisorIsZero(pp)
    /\ PairedWithoutInclusionProofs

\* The remainder by zero in the verifier.
C23_WitnessRemainderVerify ==
    /\ VerifierAborted /\ pp.sector_count > 0 /\ LeafDivisorIsZero(pp)
    /\ ~PairedWithoutInclusionProofs

\* Without those inputs both entry points return.
C23_WitnessReturns ==
    /\ Verified /\ verdict = "err" /\ result.kind = "Ok" /\ tamper.kind = "drop_partition"

\* ------------------------------------------------------------------ C24
\* A step of a running prove_all_partitions: the entry checks, a closure of
\* the parallel map that finishes (its tree call has returned), or a step of
\* the calling thread.
ProveStep ==
    \/ Start
    \/ \E k \in 0..(MaxChallenges - 1) : WorkerFinish(k)
    \/ CollectSector
    \/ PadStep
    \/ PushPartition
    \/ WinningChallenge
    \/ WinningEmit
    \/ Finalize

Called24 == Proving /\ pc = "start"

\* C24 as stated: every call of prove_all_partitions eventually returns
\* Ok(partition proofs) or an error.
C24_EventuallyReturns ==
    Called24 ~> (pc = "done" /\ result.kind \in {"Ok", "Err", "FaultySectors"})

\* Every call of prove_all_partitions eventually ends: it returns or aborts.
C24_EventuallyEnds == Called24 ~> (pc = "done")

\* The sector proofs of the current chunk that are duplicates.
Duplications == Len(proofs) - ChunkLen(j, pp.sector_count, NumSectors)

\* The padding loop has made at most sector_count - 1 duplications.
C24_PaddingBound ==
    (Proving /\ pc = "pad") => (0 <= Duplications /\ Duplications <= pp.sector_count - 1)

\* Every challenge index of a sector is tried once, whatever the others gave:
\* the finished closures are those of distinct indices, their slots hold
\* their results, and the others are still to run.
C24_NoRetry ==
    (Proving /\ pc = "par") =>
        /\ Len(slots) = pp.challenge_count
        /\ \A a, b \in 1..Len(completed) : completed[a] = completed[b] => a = b
        /\ \A n \in 1..Len(slots) :
              slots[n].kind # "pending" <=> \E a \in 1..Len(completed) : completed[a] = n - 1

\* A short chunk padded twice, and a fault before the last closure finished.
C24_WitnessPadded ==
    /\ Proving /\ pc = "pad" /\ Duplications = 2

C24_WitnessFault ==
    /\ Proving /\ pc = "par" /\ Len(completed) = 1
    /\ slots[completed[1] + 1].kind = "fault" /\ pp.challenge_count = 2

\* The call that aborts instead of returning.
C24_WitnessAbort == Proving /\ pc = "done" /\ result.kind = "panic"

Next ==
    \/ Start
    \/ \E k \in 0..(MaxChallenges - 1) : WorkerFinish(k)
    \/ CollectSector
    \/ PadStep
    \/ PushPartition
    \/ WinningChallenge
    \/ WinningEmit
    \/ Finalize
    \/ VanillaStart
    \/ VanillaWorker
    \/ VanillaCollect
    \/ Reinvoke
    \/ ProveReturn
    \/ Verify
    \/ CallVerify
    \/ TamperSibling
    \/ TamperCommC
    \/ TamperCommRLast
    \/ SwapCommR
    \/ DropSectorProof
    \/ AppendPartition
    \/ ReplaceSectorProof
    \/ DropPartition
    \/ DropInclusionProof
    \/ AppendInclusionProof
    \/ CallGenerateLeafChallenge
    \/ CallGenerateLeafChallenges
    \/ CallGenerateSectorChallenge
    \/ CallGenerateSectorChallenges
    \/ CallSatisfiesRequirements

Spec == Init /\ [][Next]_vars

\* The workers of the parallel map are scheduled and every tree call returns:
\* a running prove_all_partitions takes its next step.
FairSpec == Spec /\ WF_vars(ProveStep)

====
